---- MODULE Spec2Model ----
(***************************************************************************)
(* State-machine model of the unida backend: the Express handlers of the   *)
(* two JWT-protected variants (src/unnamed/part_000 lines 101-522, called  *)
(* "full", and src/unnamed/part_002, called "basic"), the MongoDB          *)
(* collections User and Paper they read and write, and the Cloudinary      *)
(* object store they upload to.  Every await of a handler is a point where *)
(* other requests may interleave, so each handler is cut into one action   *)
(* per awaited call; the synchronous middleware chain runs inside the      *)
(* action that starts the request.  The news and events routes and the     *)
(* first server.js (src/server.js lines 1-60, "legacy": no tokens, no      *)
(* try/catch) are modelled the same way.                                   *)
(***************************************************************************)
EXTENDS Integers, Sequences, FiniteSets, TLC

(* ---------------- bounds of the model ---------------- *)
MaxUploads == 2
MaxClock == 1
MaxComments == 2

(* ---------------- input alphabets ---------------- *)
Variants == {"full", "basic"}
ReqIds == {"r1", "r2"}
Names == {"Al", "Bo"}
ValidEmails == {"a@x.io", "b@x.io"}
GoodPassword == "secret1"
Passwords == {GoodPassword, "secret2"}
Titles == {"T"}
PdfMime == "application/pdf"
Mimes == {PdfMime, "text/plain"}
ImageMimes == {"image/png"}
Texts == {"hi"}
JWT_SECRET == "dev_secret"
\* File sizes in MB: one under and one over the multer limit of the paper route.
Sizes == {1, 51}
PdfSizeLimit == 50

VARIABLES
    variant,    \* which server.js is running: "full", "basic" or "legacy"
    news,       \* News collection (full) / newsStore (basic): the ids of its items
    events,     \* Event collection (full) / eventsStore (basic): the ids of its items
    users,      \* User collection, in insertion order; _id is the index
    papers,     \* Paper collection, in insertion (natural) order
    objects,    \* handles (public_id) of the objects present in Cloudinary
    destroyed,  \* handles a gateway destroy call has removed
    nextId,     \* next public_id / Paper _id to be generated
    now,        \* the server clock (Date.now)
    issued,     \* tokens returned to clients by register / login
    removed,    \* _ids whose record a delete has removed
    reqs,       \* the requests in flight, per connection
    response    \* the request being answered, until its client has the response

vars ==
    <<variant, news, events, users, papers, objects, destroyed, nextId, now, issued, removed, reqs, response>>

(* ---------------- helpers ---------------- *)
NoHandle == 0
NoUser == [id |-> 0, email |-> "", name |-> "", isAdmin |-> FALSE]
NoToken ==
    [id |-> 0, email |-> "", name |-> "", isAdmin |-> FALSE, sig |-> "", expired |-> FALSE]

\* bcrypt.hash / bcrypt.compare: a tagged one-way digest of the password.
bcryptHash(password) == <<"bcrypt", password>>
bcryptCompareRaw(password, hash) == hash = password
bcryptCompare(password, hash) == hash = bcryptHash(password)

\* jwt.sign of the identity payload with the server's secret.
generateToken(user) ==
    [id |-> user.id, email |-> user.email, name |-> user.name, isAdmin |-> user.isAdmin,
     sig |-> JWT_SECRET, expired |-> FALSE]

\* jwt.verify: signature and expiry check, then the payload.
jwtVerify(token) == token.sig = JWT_SECRET /\ ~token.expired
jwtPayload(token) ==
    [id |-> token.id, email |-> token.email, name |-> token.name, isAdmin |-> token.isAdmin]

\* authMiddleware: TRUE when the Authorization header carries a verifiable bearer token.
authMiddlewareSkipped(token) == TRUE
authMiddleware(token) == token # NoToken /\ jwtVerify(token)

\* What a client can put in the Authorization header: nothing or a header that
\* is not 'Bearer <token>' (NoToken), a token signed with another key, a token the
\* server issued, or such a token after its 30 days.
ForgedToken ==
    [id |-> 1, email |-> "a@x.io", name |-> "Al", isAdmin |-> TRUE, sig |-> "forged",
     expired |-> FALSE]
ExpiredTokens == {[t EXCEPT !.expired = TRUE] : t \in issued}
Presentable == issued \cup {NoToken, ForgedToken} \cup ExpiredTokens

Blank ==
    [kind |-> "idle", pc |-> "idle", status |-> 0, user |-> NoUser,
     name |-> "", email |-> "", password |-> "", token |-> NoToken,
     pid |-> 0, title |-> "", author |-> "", mime |-> "", size |-> 0,
     handle |-> NoHandle, date |-> 0, text |-> "",
     stored |-> FALSE, wrote |-> FALSE, destroyCalled |-> FALSE, destroyOk |-> FALSE,
     found |-> FALSE, missing |-> FALSE, fault |-> "", result |-> <<>>,
     badToken |-> FALSE, seen |-> <<>>, creator |-> 0]

\* A request of a guarded route as it reaches authMiddleware.  badToken tells
\* whether the header carries no live token of this server; the header itself is
\* kept only on the request the middleware turns away.
Arrive(kind, token) ==
    [Blank EXCEPT !.kind = kind, !.badToken = token \notin issued,
                  !.token = IF authMiddleware(token) THEN NoToken ELSE token]

Free(r) == reqs[r].pc = "idle"

\* One step of request r: it goes on with its locals, or it is answered, which
\* frees the connection and hands the answered request to its client.
Step(r, rec) ==
    /\ response = Blank
    /\ reqs' = [reqs EXCEPT ![r] = IF rec.pc = "done" THEN Blank ELSE rec]
    /\ response' = IF rec.pc = "done" THEN rec ELSE response

\* res.status(code).json(...): the request is answered.
Respond(rec, code) == [rec EXCEPT !.pc = "done", !.status = code]

\* The catch block of a handler after an awaited call was rejected by the
\* environment (database unreachable, gateway error): 500.
Fail(rec, what) == [rec EXCEPT !.pc = "done", !.status = 500, !.fault = what]

\* The client receives the response.
Deliver ==
    /\ response # Blank
    /\ response' = Blank
    /\ UNCHANGED <<variant, news, events, users, papers, objects, destroyed, nextId, now, issued, removed, reqs>>

UserByEmail(email) == {i \in 1..Len(users) : users[i].email = email}
PaperIds == {papers[i].id : i \in 1..Len(papers)}
PaperById(id) == papers[CHOOSE i \in 1..Len(papers) : papers[i].id = id]

\* Paper.findById(id): the stored documents with this _id (none or one).
findByIdAnyPaper(id) == {papers[i] : i \in 1..Len(papers)}
findById(id) == {papers[i] : i \in {j \in 1..Len(papers) : papers[j].id = id}}

\* if (!paper) return res.status(404)
notFound(docs) == docs = {}

(* ---------------- the clock ---------------- *)
Tick ==
    /\ response = Blank
    /\ now < MaxClock
    /\ now' = now + 1
    /\ UNCHANGED <<variant, news, events, users, papers, objects, destroyed, nextId, issued, removed, reqs, response>>

(* ---------------- POST /api/papers ---------------- *)
\* uploadPDF's fileFilter (full variant); the basic variant's multer has no filter.
fileFilterAcceptsAll(mime) == TRUE
fileFilter(mime) == IF variant = "full" THEN mime = PdfMime ELSE TRUE

\* express-validator checks on title and author (full variant only).
paperFieldsValid(title, author) ==
    IF variant = "full" THEN Len(title) >= 1 /\ Len(author) >= 1 ELSE TRUE

\* authMiddleware, multer (fileFilter, limits), validators, up to the first await.
\* mime = "" stands for a request without a file part.
StartPost(r) ==
    /\ Free(r)
    /\ nextId <= MaxUploads
    /\ \E token \in Presentable :
        IF ~authMiddleware(token)
        THEN Step(r, Respond(Arrive("post", token), 401))
        ELSE \E mime \in Mimes \cup {""} :
            LET rec == [Arrive("post", token) EXCEPT !.user = jwtPayload(token), !.mime = mime]
            IN IF mime # "" /\ ~fileFilter(mime)
               THEN Step(r, Respond(rec, 400))
               ELSE \E size \in IF mime = "" THEN {0} ELSE Sizes :
                   IF size > PdfSizeLimit
                   THEN Step(r, Respond([rec EXCEPT !.size = size], 500))
                   ELSE \E title \in Titles \cup {""}, author \in Names \cup {""} :
                       IF ~paperFieldsValid(title, author) \/ mime = ""
                       THEN Step(r, Respond([rec EXCEPT !.size = size, !.title = title,
                                                        !.author = author], 400))
                       ELSE Step(r, [rec EXCEPT !.title = title, !.author = author,
                                                !.pc = "post_upload"])
    /\ UNCHANGED <<variant, news, events, users, papers, objects, destroyed, nextId, now, issued, removed>>

\* const result = await uploadBufferToCloudinary(...): a rejected upload goes to the
\* catch block; after a resolved one new Paper({...}) takes its _id and its date.
uploadOutcomeUnchecked(rec, stored, id, t) ==
    [rec EXCEPT !.pc = "post_save", !.stored = stored, !.handle = id, !.pid = id, !.date = t]
uploadOutcome(rec, stored, id, t) ==
    IF stored
    THEN [rec EXCEPT !.pc = "post_save", !.stored = TRUE, !.handle = id, !.pid = id, !.date = t]
    ELSE Respond(rec, 500)

PostUpload(r) ==
    /\ reqs[r].pc = "post_upload"
    /\ \E stored \in IF nextId <= MaxUploads THEN BOOLEAN ELSE {FALSE} :
        /\ objects' = IF stored THEN objects \cup {nextId} ELSE objects
        /\ nextId' = IF stored THEN nextId + 1 ELSE nextId
        /\ Step(r, uploadOutcome([reqs[r] EXCEPT !.fault = IF stored THEN "" ELSE "store"],
                                 stored, nextId, now))
    /\ UNCHANGED <<variant, news, events, users, papers, destroyed, now, issued, removed>>

\* catch (e) { console.error(...); res.status(500) }: the uploaded object is left
\* where it is.
catchWithRollback(objs, handle) == objs \ {handle}
catchUploadFailed(objs, handle) == objs

\* await paper.save(); res.json(paper)
PostSave(r) ==
    /\ reqs[r].pc = "post_save"
    /\ \E dbOk \in BOOLEAN :
        IF dbOk
        THEN /\ papers' = Append(papers, [id |-> reqs[r].pid, author |-> reqs[r].author,
                                          handle |-> reqs[r].handle, date |-> reqs[r].date,
                                          comments |-> <<>>, creator |-> reqs[r].user.id])
             /\ Step(r, Respond([reqs[r] EXCEPT !.wrote = TRUE], 200))
             /\ UNCHANGED objects
        ELSE /\ Step(r, Fail(reqs[r], "db"))
             /\ objects' = catchUploadFailed(objects, reqs[r].handle)
             /\ UNCHANGED papers
    /\ UNCHANGED <<variant, news, events, users, destroyed, nextId, now, issued, removed>>

(* ---------------- DELETE /api/papers/:id ---------------- *)
\* Ids a client can name: 0, a well-formed id of no record, and every _id generated
\* so far except those of creates still in flight, which no response has shown yet.
KnownIds ==
    {id \in 0..(nextId - 1) : \A q \in ReqIds : ~(reqs[q].kind = "post" /\ reqs[q].pid = id)}

StartDelete(r) ==
    /\ Free(r)
    /\ \E token \in Presentable :
        IF ~authMiddleware(token)
        THEN Step(r, Respond(Arrive("delete", token), 401))
        ELSE \E pid \in KnownIds :
            Step(r,
                [Arrive("delete", token) EXCEPT !.pc = "del_find", !.user = jwtPayload(token),
                              !.pid = pid, !.missing = pid \notin PaperIds])
    /\ UNCHANGED <<variant, news, events, users, papers, objects, destroyed, nextId, now, issued, removed>>

\* isAuthor / isAdmin of the delete handler.
mayDeleteAnyone(user, paper) == TRUE
mayDelete(user, paper) == user.name = paper.author \/ user.isAdmin

\* const paper = await Paper.findById(id); 404; 403
DeleteFind(r) ==
    /\ reqs[r].pc = "del_find"
    /\ \E dbOk \in BOOLEAN :
        LET rec == reqs[r]
            docs == findById(rec.pid)
        IN Step(r,
            IF ~dbOk THEN Fail(rec, "db")
            ELSE IF notFound(docs) THEN Respond(rec, 404)
            ELSE LET paper == CHOOSE p \in docs : TRUE
                     found == [rec EXCEPT !.found = TRUE, !.author = paper.author,
                                          !.handle = paper.handle,
                                          !.creator = paper.creator]
                 IN IF ~mayDelete(rec.user, paper) THEN Respond(found, 403)
                    ELSE [found EXCEPT !.pc = IF paper.handle # NoHandle
                                              THEN "del_destroy" ELSE "del_remove"])
    /\ UNCHANGED <<variant, news, events, users, papers, objects, destroyed, nextId, now, issued, removed>>

\* try { await cloudinary.uploader.destroy(public_id) } catch { console.warn }:
\* the handler goes on to paper.remove() whether or not the call succeeded.
destroyOutcomeFatal(rec, ok) ==
    IF ok THEN [rec EXCEPT !.pc = "del_remove", !.destroyCalled = TRUE, !.destroyOk = TRUE]
    ELSE Fail([rec EXCEPT !.destroyCalled = TRUE], "destroy")
destroyOutcome(rec, ok) ==
    [rec EXCEPT !.pc = "del_remove", !.destroyCalled = TRUE, !.destroyOk = ok]

DeleteDestroy(r) ==
    /\ reqs[r].pc = "del_destroy"
    /\ \E ok \in BOOLEAN :
        /\ objects' = IF ok THEN objects \ {reqs[r].handle} ELSE objects
        /\ destroyed' = IF ok THEN destroyed \cup {reqs[r].handle} ELSE destroyed
        /\ Step(r, destroyOutcome(reqs[r], ok))
    /\ UNCHANGED <<variant, news, events, users, papers, nextId, now, issued, removed>>

\* paper.remove(): the collection without the document of this _id.
removeRecordSkipped(ps, pid) == ps
removeRecord(ps, pid) == SelectSeq(ps, LAMBDA p : p.id # pid)

\* await paper.remove(); res.json({ ok: true })
DeleteRemove(r) ==
    /\ reqs[r].pc = "del_remove"
    /\ \E dbOk \in BOOLEAN :
        IF dbOk
        THEN /\ papers' = removeRecord(papers, reqs[r].pid)
             /\ removed' = removed \cup {reqs[r].pid}
             /\ Step(r, Respond([reqs[r] EXCEPT !.wrote = TRUE], 200))
        ELSE /\ Step(r, Fail(reqs[r], "db"))
             /\ UNCHANGED <<papers, removed>>
    /\ UNCHANGED <<variant, news, events, users, objects, destroyed, nextId, now, issued>>

(* ---------------- POST /api/papers/:id/comments ---------------- *)
StartComment(r) ==
    /\ Free(r)
    /\ \E token \in Presentable :
        IF ~authMiddleware(token)
        THEN Step(r, Respond(Arrive("comment", token), 401))
        ELSE \E pid \in KnownIds, text \in Texts \cup {""} :
            LET rec == [Arrive("comment", token) EXCEPT !.user = jwtPayload(token),
                                     !.pid = pid, !.text = text,
                                     !.missing = pid \notin PaperIds]
            IN Step(r,
                    IF Len(text) >= 1 THEN [rec EXCEPT !.pc = "com_find"] ELSE Respond(rec, 400))
    /\ UNCHANGED <<variant, news, events, users, papers, objects, destroyed, nextId, now, issued, removed>>

\* const paper = await Paper.findById(id); 404; paper.comments.push(...)
CommentFind(r) ==
    /\ reqs[r].pc = "com_find"
    /\ \E dbOk \in BOOLEAN :
        LET docs == findById(reqs[r].pid)
        IN Step(r,
            IF ~dbOk THEN Fail(reqs[r], "db")
            ELSE IF notFound(docs) THEN Respond(reqs[r], 404)
            ELSE [reqs[r] EXCEPT !.found = TRUE, !.pc = "com_save",
                                 !.seen = (CHOOSE p \in docs : TRUE).comments])
    /\ UNCHANGED <<variant, news, events, users, papers, objects, destroyed, nextId, now, issued, removed>>

\* await paper.save(): mongoose sends the array push as a $push on the stored
\* document, not the array the handler read (rec.seen); saving a document that is
\* no longer stored fails (DocumentNotFoundError).
saveWholeDocument(p, rec, comment) ==
    IF p.id = rec.pid THEN [p EXCEPT !.comments = Append(rec.seen, comment)] ELSE p
pushComment(p, rec, comment) ==
    IF p.id = rec.pid THEN [p EXCEPT !.comments = Append(@, comment)] ELSE p

CommentSave(r) ==
    /\ reqs[r].pc = "com_save"
    /\ \E dbOk \in IF reqs[r].pid \in PaperIds /\ Len(PaperById(reqs[r].pid).comments) >= MaxComments
                   THEN {FALSE} ELSE BOOLEAN :
        IF dbOk /\ reqs[r].pid \in PaperIds
        THEN /\ papers' = [i \in 1..Len(papers) |->
                    pushComment(papers[i], reqs[r],
                                [author |-> reqs[r].user.name, text |-> reqs[r].text])]
             /\ Step(r, Respond([reqs[r] EXCEPT !.wrote = TRUE], 200))
        ELSE /\ Step(r, IF dbOk THEN Respond(reqs[r], 500) ELSE Fail(reqs[r], "db"))
             /\ UNCHANGED papers
    /\ UNCHANGED <<variant, news, events, users, objects, destroyed, nextId, now, issued, removed>>

(* ---------------- GET /api/papers ---------------- *)
Perms(n) == {f \in [1..n -> 1..n] : \A i, j \in 1..n : i # j => f[i] # f[j]}

\* Paper.find({}).sort({ date: -1 }): every order that is descending in date; the
\* store leaves the order of records with equal dates open.
sortNatural(ps) == {[i \in 1..Len(ps) |-> ps[i].id]}
sortByDateDesc(ps) ==
    {[i \in 1..Len(ps) |-> ps[f[i]].id] :
        f \in {g \in Perms(Len(ps)) :
                 \A i, j \in 1..Len(ps) : i < j => ps[g[i]].date >= ps[g[j]].date}}

ListPapers(r) ==
    /\ Free(r)
    /\ \E dbOk \in BOOLEAN :
        IF dbOk
        THEN \E order \in sortByDateDesc(papers) :
                Step(r,
                    Respond([Blank EXCEPT !.kind = "list", !.result = order], 200))
        ELSE Step(r, Fail([Blank EXCEPT !.kind = "list"], "db"))
    /\ UNCHANGED <<variant, news, events, users, papers, objects, destroyed, nextId, now, issued, removed>>

(* ---------------- POST /api/auth/register ---------------- *)
\* express-validator checks of the full variant, truthiness checks of the basic one.
registerInputValid(name, email, password) ==
    IF variant = "full"
    THEN Len(name) >= 2 /\ email \in ValidEmails /\ Len(password) >= 6
    ELSE name # "" /\ email # "" /\ password # ""

StartRegister(r) ==
    /\ Free(r)
    /\ \E name \in Names \cup {""}, email \in ValidEmails \cup {""},
          password \in {GoodPassword, ""} :
        LET rec == [Blank EXCEPT !.kind = "register", !.name = name, !.email = email,
                                 !.password = password]
        IN Step(r, IF registerInputValid(name, email, password)
                   THEN [rec EXCEPT !.pc = "reg_find"]
                   ELSE Respond(rec, 400))
    /\ UNCHANGED <<variant, news, events, users, papers, objects, destroyed, nextId, now, issued, removed>>

\* const exists = await User.findOne({ email }); 400 when it exists
RegisterFind(r) ==
    /\ reqs[r].pc = "reg_find"
    /\ \E dbOk \in BOOLEAN :
        Step(r, IF ~dbOk THEN Fail(reqs[r], "db")
                ELSE IF UserByEmail(reqs[r].email) # {} THEN Respond(reqs[r], 400)
                ELSE [reqs[r] EXCEPT !.pc = "reg_save"])
    /\ UNCHANGED <<variant, news, events, users, papers, objects, destroyed, nextId, now, issued, removed>>

\* The unique index on User.email (UserSchema): an insert of a taken email is rejected.
UniqueIndexIgnored(email) == TRUE
UniqueIndexAllows(email) == UserByEmail(email) = {}

\* The identity a token is issued for.
Identity(user) ==
    [id |-> user.id, email |-> user.email, name |-> user.name, isAdmin |-> user.isAdmin]

\* bcrypt.hash; new User({...}); await user.save(); generateToken(user); res.json
RegisterSave(r) ==
    /\ reqs[r].pc = "reg_save"
    /\ \E dbOk \in BOOLEAN :
        IF dbOk /\ UniqueIndexAllows(reqs[r].email)
        THEN LET user == [id |-> Len(users) + 1, name |-> reqs[r].name, email |-> reqs[r].email,
                          passwordHash |-> bcryptHash(reqs[r].password),
                          avatar |-> NoHandle, isAdmin |-> FALSE]
             IN /\ users' = Append(users, user)
                /\ issued' = issued \cup {generateToken(user)}
                /\ Step(r, Respond([reqs[r] EXCEPT !.token = generateToken(user),
                                                   !.user = Identity(user), !.wrote = TRUE], 200))
        ELSE /\ Step(r, IF dbOk THEN Respond(reqs[r], 500) ELSE Fail(reqs[r], "db"))
             /\ UNCHANGED <<users, issued>>
    /\ UNCHANGED <<variant, news, events, papers, objects, destroyed, nextId, now, removed>>

(* ---------------- POST /api/auth/login ---------------- *)
\* check('email').isEmail(), check('password').exists() / truthiness checks
loginInputValid(email, password) ==
    IF variant = "full" THEN email \in ValidEmails ELSE email # "" /\ password # ""

StartLogin(r) ==
    /\ Free(r)
    /\ \E email \in ValidEmails \cup {""}, password \in Passwords :
        LET rec == [Blank EXCEPT !.kind = "login", !.email = email, !.password = password]
        IN Step(r, IF loginInputValid(email, password)
                   THEN [rec EXCEPT !.pc = "login_find"]
                   ELSE Respond(rec, 400))
    /\ UNCHANGED <<variant, news, events, users, papers, objects, destroyed, nextId, now, issued, removed>>

\* const user = await User.findOne({ email }); bcrypt.compare; generateToken; res.json
LoginFind(r) ==
    /\ reqs[r].pc = "login_find"
    /\ \E dbOk \in BOOLEAN :
        LET found == UserByEmail(reqs[r].email)
        IN IF dbOk /\ found # {} /\
              bcryptCompare(reqs[r].password, users[CHOOSE i \in found : TRUE].passwordHash)
           THEN LET user == users[CHOOSE i \in found : TRUE]
                IN /\ issued' = issued \cup {generateToken(user)}
                   /\ Step(r, Respond([reqs[r] EXCEPT !.token = generateToken(user)], 200))
           ELSE /\ Step(r, IF dbOk THEN Respond(reqs[r], 400) ELSE Fail(reqs[r], "db"))
                /\ UNCHANGED issued
    /\ UNCHANGED <<variant, news, events, users, papers, objects, destroyed, nextId, now, removed>>

(* ---------------- POST /api/users/avatar (full variant) ---------------- *)
AvatarSizeLimit == 5

\* uploadImage's fileFilter: file.mimetype.startsWith('image/')
imageFilter(mime) == mime \in ImageMimes

\* authMiddleware, multer (fileFilter, limits), up to the first await.  A multer
\* error goes to the global error handler, which answers 400 only for 'Only PDF'.
StartAvatar(r) ==
    /\ Free(r)
    /\ variant = "full"
    /\ nextId <= MaxUploads
    /\ \E token \in Presentable :
        IF ~authMiddleware(token)
        THEN Step(r, Respond(Arrive("avatar", token), 401))
        ELSE \E mime \in ImageMimes \cup {"text/plain", ""} :
            LET rec == [Arrive("avatar", token) EXCEPT !.user = jwtPayload(token), !.mime = mime]
            IN IF mime = "" THEN Step(r, Respond(rec, 400))
               ELSE IF ~imageFilter(mime) THEN Step(r, Respond(rec, 500))
               ELSE \E size \in Sizes :
                   Step(r, IF size > AvatarSizeLimit THEN Respond([rec EXCEPT !.size = size], 500)
                           ELSE [rec EXCEPT !.pc = "av_upload"])
    /\ UNCHANGED <<variant, news, events, users, papers, objects, destroyed, nextId, now, issued, removed>>

\* const result = await uploadBufferToCloudinary(..., 'image')
AvatarUpload(r) ==
    /\ reqs[r].pc = "av_upload"
    /\ \E stored \in IF nextId <= MaxUploads THEN BOOLEAN ELSE {FALSE} :
        IF stored
        THEN /\ objects' = objects \cup {nextId}
             /\ nextId' = nextId + 1
             /\ Step(r, [reqs[r] EXCEPT !.pc = "av_find", !.stored = TRUE, !.handle = nextId])
        ELSE /\ Step(r, Fail(reqs[r], "store"))
             /\ UNCHANGED <<objects, nextId>>
    /\ UNCHANGED <<variant, news, events, users, papers, destroyed, now, issued, removed>>

\* const user = await User.findById(req.user.id); 404; user.avatar = result.secure_url
AvatarFind(r) ==
    /\ reqs[r].pc = "av_find"
    /\ \E dbOk \in BOOLEAN :
        Step(r, IF ~dbOk THEN Fail(reqs[r], "db")
                ELSE IF reqs[r].user.id \notin 1..Len(users) THEN Respond(reqs[r], 404)
                ELSE [reqs[r] EXCEPT !.pc = "av_save"])
    /\ UNCHANGED <<variant, news, events, users, papers, objects, destroyed, nextId, now, issued, removed>>

\* await user.save(): only the modified path, avatar, is written
AvatarSave(r) ==
    /\ reqs[r].pc = "av_save"
    /\ \E dbOk \in BOOLEAN :
        IF dbOk
        THEN /\ users' = [users EXCEPT ![reqs[r].user.id].avatar = reqs[r].handle]
             /\ Step(r, Respond([reqs[r] EXCEPT !.wrote = TRUE], 200))
        ELSE /\ Step(r, Fail(reqs[r], "db"))
             /\ UNCHANGED users
    /\ UNCHANGED <<variant, news, events, papers, objects, destroyed, nextId, now, issued, removed>>

(* ---------------- /api/news and /api/events ---------------- *)
\* POST /api/news.  Full variant: authMiddleware, check('title'), then
\* await item.save().  Basic variant: authMiddleware, then newsStore.unshift(item)
\* and res.json(item) with no await.
StartNewsPost(r) ==
    /\ Free(r)
    /\ nextId <= MaxUploads
    /\ \E token \in Presentable :
        IF ~authMiddleware(token)
        THEN /\ Step(r, Respond(Arrive("news", token), 401))
             /\ UNCHANGED <<news, nextId>>
        ELSE \E title \in Titles \cup {""} :
            LET rec == [Arrive("news", token) EXCEPT !.title = title]
            IN IF variant = "basic"
               THEN /\ news' = news \cup {nextId}
                    /\ nextId' = nextId + 1
                    /\ Step(r, Respond([rec EXCEPT !.pid = nextId, !.wrote = TRUE], 200))
               ELSE /\ Step(r, IF Len(title) >= 1 THEN [rec EXCEPT !.pc = "news_save"]
                               ELSE Respond(rec, 400))
                    /\ UNCHANGED <<news, nextId>>
    /\ UNCHANGED <<variant, events, users, papers, objects, destroyed, now, issued, removed>>

\* await item.save(); res.json(item)
NewsSave(r) ==
    /\ reqs[r].pc = "news_save"
    /\ \E dbOk \in IF nextId <= MaxUploads THEN BOOLEAN ELSE {FALSE} :
        IF dbOk
        THEN /\ news' = news \cup {nextId}
             /\ nextId' = nextId + 1
             /\ Step(r, Respond([reqs[r] EXCEPT !.pid = nextId, !.wrote = TRUE], 200))
        ELSE /\ Step(r, Fail(reqs[r], "db"))
             /\ UNCHANGED <<news, nextId>>
    /\ UNCHANGED <<variant, events, users, papers, objects, destroyed, now, issued, removed>>

\* DELETE /api/news/:id (full variant): authMiddleware; 403 unless req.user.isAdmin
StartNewsDelete(r) ==
    /\ Free(r)
    /\ variant = "full"
    /\ \E token \in Presentable :
        IF ~authMiddleware(token)
        THEN Step(r, Respond(Arrive("newsdel", token), 401))
        ELSE LET rec == [Arrive("newsdel", token) EXCEPT !.user = jwtPayload(token)]
             IN IF ~rec.user.isAdmin THEN Step(r, Respond(rec, 403))
                ELSE \E id \in 0..(nextId - 1) :
                        Step(r, [rec EXCEPT !.pid = id, !.pc = "news_del"])
    /\ UNCHANGED <<variant, news, events, users, papers, objects, destroyed, nextId, now, issued, removed>>

\* await News.findByIdAndDelete(req.params.id); res.json({ ok: true })
NewsDelete(r) ==
    /\ reqs[r].pc = "news_del"
    /\ \E dbOk \in BOOLEAN :
        IF dbOk
        THEN /\ news' = news \ {reqs[r].pid}
             /\ Step(r, Respond([reqs[r] EXCEPT !.wrote = TRUE], 200))
        ELSE /\ Step(r, Fail(reqs[r], "db"))
             /\ UNCHANGED news
    /\ UNCHANGED <<variant, events, users, papers, objects, destroyed, nextId, now, issued, removed>>

\* POST /api/events.  Full variant: authMiddleware, then await item.save(); the
\* check('title') result is never read.  Basic variant: eventsStore.unshift(item).
StartEventPost(r) ==
    /\ Free(r)
    /\ nextId <= MaxUploads
    /\ \E token \in Presentable :
        IF ~authMiddleware(token)
        THEN /\ Step(r, Respond(Arrive("event", token), 401))
             /\ UNCHANGED <<events, nextId>>
        ELSE \E title \in Titles \cup {""} :
            LET rec == [Arrive("event", token) EXCEPT !.title = title]
            IN IF variant = "basic"
               THEN /\ events' = events \cup {nextId}
                    /\ nextId' = nextId + 1
                    /\ Step(r, Respond([rec EXCEPT !.pid = nextId, !.wrote = TRUE], 200))
               ELSE /\ Step(r, [rec EXCEPT !.pc = "event_save"])
                    /\ UNCHANGED <<events, nextId>>
    /\ UNCHANGED <<variant, news, users, papers, objects, destroyed, now, issued, removed>>

\* await item.save(); res.json(item)
EventSave(r) ==
    /\ reqs[r].pc = "event_save"
    /\ \E dbOk \in IF nextId <= MaxUploads THEN BOOLEAN ELSE {FALSE} :
        IF dbOk
        THEN /\ events' = events \cup {nextId}
             /\ nextId' = nextId + 1
             /\ Step(r, Respond([reqs[r] EXCEPT !.pid = nextId, !.wrote = TRUE], 200))
        ELSE /\ Step(r, Fail(reqs[r], "db"))
             /\ UNCHANGED <<events, nextId>>
    /\ UNCHANGED <<variant, news, users, papers, objects, destroyed, now, issued, removed>>

\* DELETE /api/events/:id (full variant): authMiddleware; 403 unless req.user.isAdmin
StartEventDelete(r) ==
    /\ Free(r)
    /\ variant = "full"
    /\ \E token \in Presentable :
        IF ~authMiddleware(token)
        THEN Step(r, Respond(Arrive("eventdel", token), 401))
        ELSE LET rec == [Arrive("eventdel", token) EXCEPT !.user = jwtPayload(token)]
             IN IF ~rec.user.isAdmin THEN Step(r, Respond(rec, 403))
                ELSE \E id \in 0..(nextId - 1) :
                        Step(r, [rec EXCEPT !.pid = id, !.pc = "event_del"])
    /\ UNCHANGED <<variant, news, events, users, papers, objects, destroyed, nextId, now, issued, removed>>

\* await Event.findByIdAndDelete(req.params.id); res.json({ ok: true })
EventDelete(r) ==
    /\ reqs[r].pc = "event_del"
    /\ \E dbOk \in BOOLEAN :
        IF dbOk
        THEN /\ events' = events \ {reqs[r].pid}
             /\ Step(r, Respond([reqs[r] EXCEPT !.wrote = TRUE], 200))
        ELSE /\ Step(r, Fail(reqs[r], "db"))
             /\ UNCHANGED events
    /\ UNCHANGED <<variant, news, users, papers, objects, destroyed, nextId, now, issued, removed>>

(* ---------------- the first server.js (src/server.js lines 1-60) ---------------- *)
\* Its two handlers have no try/catch.  A rejected await inside an async handler
\* is forwarded to the error handler by Express 5 (500) and is left as an unhandled
\* rejection by Express 4, which sends nothing; the repository pins no version.
Unhandled(rec, forwarded) ==
    IF forwarded THEN Fail(rec, "db") ELSE [rec EXCEPT !.pc = "escaped", !.fault = "db"]

\* Paper.find().sort({ _id: -1 })
sortByIdDesc(ps) == [i \in 1..Len(ps) |-> ps[Len(ps) + 1 - i].id]

\* app.get('/api/papers'): const papers = await Paper.find().sort(...); res.json(papers)
LegacyList(r) ==
    /\ Free(r)
    /\ \E dbOk \in BOOLEAN, forwarded \in BOOLEAN :
        Step(r, IF dbOk
                THEN Respond([Blank EXCEPT !.kind = "list", !.result = sortByIdDesc(papers)], 200)
                ELSE Unhandled([Blank EXCEPT !.kind = "list"], forwarded))
    /\ UNCHANGED <<variant, news, events, users, papers, objects, destroyed, nextId, now, issued, removed>>

\* app.post('/api/papers', upload.single('file'), ...): multer-storage-cloudinary
\* uploads the file inside the middleware; its error goes to Express's handler.
StartLegacyPost(r) ==
    /\ Free(r)
    /\ nextId <= MaxUploads
    /\ \E author \in Names, stored \in BOOLEAN :
        LET rec == [Blank EXCEPT !.kind = "post", !.author = author, !.mime = PdfMime]
        IN /\ objects' = IF stored THEN objects \cup {nextId} ELSE objects
           /\ nextId' = IF stored THEN nextId + 1 ELSE nextId
           /\ Step(r, IF stored
                      THEN [rec EXCEPT !.pc = "legacy_save", !.stored = TRUE, !.pid = nextId]
                      ELSE Fail(rec, "store"))
    /\ UNCHANGED <<variant, news, events, users, papers, destroyed, now, issued, removed>>

\* const paper = new Paper({...req.body, pdfUrl}); await paper.save(); res.status(201)
LegacyPostSave(r) ==
    /\ reqs[r].pc = "legacy_save"
    /\ \E dbOk \in BOOLEAN, forwarded \in BOOLEAN :
        IF dbOk
        THEN /\ papers' = Append(papers, [id |-> reqs[r].pid, author |-> reqs[r].author,
                                          handle |-> NoHandle, date |-> now,
                                          comments |-> <<>>, creator |-> 0])
             /\ Step(r, Respond([reqs[r] EXCEPT !.wrote = TRUE], 201))
        ELSE /\ Step(r, Unhandled(reqs[r], forwarded))
             /\ UNCHANGED papers
    /\ UNCHANGED <<variant, news, events, users, objects, destroyed, nextId, now, issued, removed>>

(* ---------------- specifications ---------------- *)
\* The database outlives the server process: the paper routes are started on a
\* User collection that holds two registered users whose tokens are with their
\* clients (a state SpecAuth reaches).
Registered ==
    <<[id |-> 1, name |-> "Al", email |-> "a@x.io", passwordHash |-> bcryptHash(GoodPassword),
       avatar |-> NoHandle, isAdmin |-> FALSE],
      [id |-> 2, name |-> "Bo", email |-> "b@x.io", passwordHash |-> bcryptHash(GoodPassword),
       avatar |-> NoHandle, isAdmin |-> FALSE]>>

InitStores ==
    /\ variant \in Variants
    /\ news = {}
    /\ events = {}
    /\ papers = <<>>
    /\ objects = {}
    /\ destroyed = {}
    /\ nextId = 1
    /\ now = 0
    /\ removed = {}
    /\ reqs = [r \in ReqIds |-> Blank]
    /\ response = Blank

Init ==
    /\ InitStores
    /\ users = Registered
    /\ issued = {generateToken(Registered[i]) : i \in 1..Len(Registered)}

InitAuth ==
    /\ InitStores
    /\ users = <<>>
    /\ issued = {}

\* Create and delete requests.
Next ==
    \/ Deliver
    \/ \E r \in ReqIds : StartPost(r)
    \/ \E r \in ReqIds : PostUpload(r)
    \/ \E r \in ReqIds : PostSave(r)
    \/ \E r \in ReqIds : StartDelete(r)
    \/ \E r \in ReqIds : DeleteFind(r)
    \/ \E r \in ReqIds : DeleteDestroy(r)
    \/ \E r \in ReqIds : DeleteRemove(r)

\* Delete and comment requests on a Paper collection that holds a record written
\* by the first server.js (no cloudinary_public_id) and one written by this server.
StoredPapers ==
    <<[id |-> 1, author |-> "Al", handle |-> NoHandle, date |-> 0, comments |-> <<>>,
       creator |-> 0],
      [id |-> 2, author |-> "Bo", handle |-> 2, date |-> 0, comments |-> <<>>,
       creator |-> 2]>>

InitStored ==
    /\ variant \in Variants
    /\ news = {}
    /\ events = {}
    /\ users = Registered
    /\ issued = {generateToken(Registered[i]) : i \in 1..Len(Registered)}
    /\ papers = StoredPapers
    /\ objects = {2}
    /\ destroyed = {}
    /\ nextId = 3
    /\ now = 0
    /\ removed = {}
    /\ reqs = [r \in ReqIds |-> Blank]
    /\ response = Blank

NextComments ==
    \/ Deliver
    \/ \E r \in ReqIds : StartDelete(r)
    \/ \E r \in ReqIds : DeleteFind(r)
    \/ \E r \in ReqIds : DeleteDestroy(r)
    \/ \E r \in ReqIds : DeleteRemove(r)
    \/ \E r \in ReqIds : StartComment(r)
    \/ \E r \in ReqIds : CommentFind(r)
    \/ \E r \in ReqIds : CommentSave(r)

\* Create and list requests, with the clock running.
NextList ==
    \/ Tick
    \/ Deliver
    \/ \E r \in ReqIds : StartPost(r)
    \/ \E r \in ReqIds : PostUpload(r)
    \/ \E r \in ReqIds : PostSave(r)
    \/ \E r \in ReqIds : ListPapers(r)

\* Register, login and avatar requests on an empty User collection.
NextAuth ==
    \/ Deliver
    \/ \E r \in ReqIds : StartRegister(r)
    \/ \E r \in ReqIds : RegisterFind(r)
    \/ \E r \in ReqIds : RegisterSave(r)
    \/ \E r \in ReqIds : StartLogin(r)
    \/ \E r \in ReqIds : LoginFind(r)
    \/ \E r \in ReqIds : StartAvatar(r)
    \/ \E r \in ReqIds : AvatarUpload(r)
    \/ \E r \in ReqIds : AvatarFind(r)
    \/ \E r \in ReqIds : AvatarSave(r)

\* Every route behind authMiddleware.  The User collection holds an administrator
\* (isAdmin is set in the database, no route writes it).  Requests are admitted
\* one at a time.
RegisteredAdmin == [Registered EXCEPT ![1].isAdmin = TRUE]

InitGuarded ==
    /\ InitStores
    /\ users = RegisteredAdmin
    /\ issued = {generateToken(RegisteredAdmin[i]) : i \in 1..Len(RegisteredAdmin)}

Admitted(r) == \A q \in ReqIds \ {r} : Free(q)

NextGuarded ==
    \/ Deliver
    \/ \E r \in ReqIds : Admitted(r) /\ StartPost(r)
    \/ \E r \in ReqIds : PostUpload(r)
    \/ \E r \in ReqIds : PostSave(r)
    \/ \E r \in ReqIds : Admitted(r) /\ StartDelete(r)
    \/ \E r \in ReqIds : DeleteFind(r)
    \/ \E r \in ReqIds : DeleteDestroy(r)
    \/ \E r \in ReqIds : DeleteRemove(r)
    \/ \E r \in ReqIds : Admitted(r) /\ StartComment(r)
    \/ \E r \in ReqIds : CommentFind(r)
    \/ \E r \in ReqIds : CommentSave(r)
    \/ \E r \in ReqIds : Admitted(r) /\ StartAvatar(r)
    \/ \E r \in ReqIds : AvatarUpload(r)
    \/ \E r \in ReqIds : AvatarFind(r)
    \/ \E r \in ReqIds : AvatarSave(r)
    \/ \E r \in ReqIds : Admitted(r) /\ StartNewsPost(r)
    \/ \E r \in ReqIds : NewsSave(r)
    \/ \E r \in ReqIds : Admitted(r) /\ StartNewsDelete(r)
    \/ \E r \in ReqIds : NewsDelete(r)
    \/ \E r \in ReqIds : Admitted(r) /\ StartEventPost(r)
    \/ \E r \in ReqIds : EventSave(r)
    \/ \E r \in ReqIds : Admitted(r) /\ StartEventDelete(r)
    \/ \E r \in ReqIds : EventDelete(r)

\* The first server.js: no users, no tokens.
InitLegacy ==
    /\ variant = "legacy"
    /\ news = {}
    /\ events = {}
    /\ users = <<>>
    /\ papers = <<>>
    /\ objects = {}
    /\ destroyed = {}
    /\ nextId = 1
    /\ now = 0
    /\ issued = {}
    /\ removed = {}
    /\ reqs = [r \in ReqIds |-> Blank]
    /\ response = Blank

NextLegacy ==
    \/ Tick
    \/ Deliver
    \/ \E r \in ReqIds : LegacyList(r)
    \/ \E r \in ReqIds : StartLegacyPost(r)
    \/ \E r \in ReqIds : LegacyPostSave(r)

Spec == Init /\ [][Next]_vars
SpecLegacy == InitLegacy /\ [][NextLegacy]_vars
SpecGuarded == InitGuarded /\ [][NextGuarded]_vars
SpecComments == InitStored /\ [][NextComments]_vars
SpecList == Init /\ [][NextList]_vars
SpecAuth == InitAuth /\ [][NextAuth]_vars

(* ======================= the claims ======================= *)
Requests == {reqs[r] : r \in ReqIds} \cup {response}
Answered(kind) == response.kind = kind /\ response.pc = "done"

C2_ForbiddenBeforeEffects ==
    \A q \in Requests :
        q.kind = "delete" /\ q.found /\ q.user.name # q.author /\ ~q.user.isAdmin
            => /\ q.pc = "done" /\ q.status = 403
               /\ ~q.destroyCalled /\ ~q.wrote
               /\ q.pid \in PaperIds

C2_Witness ==
    /\ Answered("delete") /\ response.status = 403
    /\ response.user.name = "Bo" /\ response.author = "Al"
    /\ response.handle \in objects

\* C4 as stated: every stored Paper with a non-empty storage handle has its object
\* in external storage.
C4_Original ==
    \A i \in 1..Len(papers) : papers[i].handle # NoHandle => papers[i].handle \in objects

\* C4 amended: every stored Paper with a non-empty storage handle has its object
\* in external storage until the gateway remove call of a delete request for it
\* has removed the object.
C4_ObjectUntilDestroyed ==
    \A i \in 1..Len(papers) :
        papers[i].handle # NoHandle => papers[i].handle \in objects \cup destroyed

C4_Witness ==
    \E i \in 1..Len(papers) : \E r \in ReqIds :
        /\ papers[i].handle \in destroyed
        /\ reqs[r].pc = "del_remove" /\ reqs[r].pid = papers[i].id

\* C5: a POST /api/papers whose gateway store call failed is answered with a 5xx
\* status in the step the failure arrives, and writes no Paper record.
C5_StoreFailureNoRecord ==
    \A q \in Requests :
        q.kind = "post" /\ q.fault = "store"
            => /\ q.pc = "done" /\ q.status >= 500 /\ q.status <= 599
               /\ ~q.stored /\ ~q.wrote
               /\ q.pid \notin PaperIds

C5_Witness ==
    /\ Answered("post") /\ response.fault = "store" /\ response.status = 500
    /\ response.mime = PdfMime /\ papers = <<>>

\* C3 as stated: when a DELETE by the paper's author is answered {ok:true}, the
\* record and the stored object are both absent, whatever the gateway remove call
\* did, and a later delete or comment on that id is answered 404.  "Later" is a
\* well-formed request that arrives when the record is removed and whose lookup
\* is answered by the database.
LaterOnRemoved(q) ==
    /\ q.kind = "delete" \/ (q.kind = "comment" /\ q.text # "")
    /\ q.missing /\ q.pid \in removed
    /\ q.pc = "done" /\ q.fault # "db"

C3_Original ==
    /\ Answered("delete") /\ response.status = 200 /\ response.user.name = response.author
        => response.pid \notin PaperIds /\ response.handle \notin objects
    /\ removed \cap PaperIds = {}
    /\ \A q \in Requests : LaterOnRemoved(q) => q.status = 404

\* C3 amended: the record is absent whatever the gateway remove call did; the
\* stored object is absent when that call succeeded; a later delete or comment
\* on that id whose lookup does not fail is answered 404.
C3_AuthorDelete ==
    /\ Answered("delete") /\ response.status = 200 /\ response.user.name = response.author
        => /\ response.pid \notin PaperIds
           /\ response.destroyOk => response.handle \notin objects
    /\ removed \cap PaperIds = {}
    /\ \A q \in Requests : LaterOnRemoved(q) => q.status = 404

C3_Witness ==
    /\ Answered("delete") /\ response.status = 200 /\ response.user.name = response.author
    /\ response.destroyCalled /\ ~response.destroyOk
    /\ response.handle \in objects /\ response.pid \in removed

ListsEachOnce ==
    /\ Len(response.result) = Cardinality(PaperIds)
    /\ {response.result[i] : i \in 1..Len(response.result)} = PaperIds

\* C7 as stated: after N creates and no delete the list holds exactly those N
\* records, each once, and a record created later (a later _id) never comes after
\* one created earlier, also when both carry the same creation timestamp.
C7_Original ==
    Answered("list") /\ response.status = 200
        => /\ ListsEachOnce
           /\ \A i, j \in 1..Len(response.result) :
                  i < j => response.result[i] > response.result[j]

\* C7 amended: exactly those N records, each once, and a record with a later
\* creation timestamp never comes after one with an earlier timestamp; the order
\* of records with equal timestamps is the store's.
C7_NewestFirstByDate ==
    Answered("list") /\ response.status = 200
        => /\ ListsEachOnce
           /\ \A i, j \in 1..Len(response.result) :
                  i < j => PaperById(response.result[i]).date >= PaperById(response.result[j]).date

C7_Witness ==
    /\ Answered("list") /\ response.status = 200
    /\ Len(response.result) = 2
    /\ PaperById(response.result[1]).date > PaperById(response.result[2]).date
    /\ papers[1].id = response.result[2]

C9_DuplicateIs400 ==
    Answered("register") /\ ~response.wrote /\ response.fault # "db"
    /\ UserByEmail(response.email) # {}
        => response.status = 400

\* C10: no two stored User records have the same email.
C10_UniqueEmail ==
    \A i, j \in 1..Len(users) : i # j => users[i].email # users[j].email

C10_Witness ==
    /\ Len(users) = 2
    /\ \E i \in 1..Len(users) : users[i].avatar # NoHandle
    /\ Answered("register") /\ response.status = 500 /\ response.fault = ""

\* The routes behind authMiddleware.
Guarded == {"post", "delete", "comment", "avatar", "news", "newsdel", "event", "eventdel"}

\* A request of a guarded route whose Authorization header is missing, not a
\* bearer token, forged or expired is answered 401 on arrival and has done nothing.
TurnedAway ==
    \A q \in Requests :
        q.kind \in Guarded /\ q.badToken
            => /\ q.pc = "done" /\ q.status = 401
               /\ ~q.found /\ ~q.stored /\ ~q.wrote /\ ~q.destroyCalled
               /\ q.user = NoUser

\* C11: on every guarded route a request without a live token of this server gets
\* 401, and the step that answers it changes no User, Paper, News, Event or
\* stored-object state.
C11_Unauthorized ==
    /\ []TurnedAway
    /\ [][response'.kind \in Guarded /\ response'.badToken
            => UNCHANGED <<users, papers, news, events, objects, destroyed>>]_vars

C11_Witness ==
    /\ Answered("newsdel") /\ response.status = 401
    /\ response.token \in ExpiredTokens /\ response.token.isAdmin
    /\ news # {} /\ papers # <<>>

\* C12: an upload with an unsupported content type is answered 400 on both
\* upload routes: a non-PDF file (within the size limit) on POST /api/papers, a
\* non-image file on POST /api/users/avatar.
C12_UnsupportedTypeIs400 ==
    /\ Answered("post") /\ ~response.badToken /\ response.mime \notin {"", PdfMime}
       /\ response.size <= PdfSizeLimit
        => response.status = 400
    /\ Answered("avatar") /\ ~response.badToken /\ response.mime \notin ImageMimes \cup {""}
        => response.status = 400

\* C13: a POST /api/papers that lacks the title, the author or the file, or whose
\* file is over the size limit, is answered with a 4xx status; it made no gateway
\* store call and wrote no Paper record.
C13_RejectedBeforeUpload ==
    Answered("post") /\ ~response.badToken
    /\ (response.title = "" \/ response.author = "" \/ response.mime = ""
        \/ response.size > PdfSizeLimit)
        => /\ response.status >= 400 /\ response.status <= 499
           /\ ~response.stored /\ ~response.wrote

\* The statuses of the error taxonomy.
Taxonomy == {400, 401, 403, 404, 500}

\* C14: a request whose database or gateway call failed is answered, with a status
\* of the error taxonomy; no failure leaves its request without a response.
C14_EveryFailureAnswered ==
    \A q \in Requests :
        q.fault # "" => q.pc = "done" /\ q.status \in Taxonomy

\* The comment a request appends.
CommentOf(q) == [author |-> q.user.name, text |-> q.text]

Orphan(h) ==
    /\ h \in objects
    /\ \A i \in 1..Len(papers) : papers[i].handle # h
    /\ \A r \in ReqIds : reqs[r].handle # h

\* C16: a POST /api/papers whose gateway store call succeeded and whose record
\* write failed is answered with a 5xx status, has no Paper record, and leaves its
\* object in storage; no later step removes such an object or attaches a record
\* to it.
C16_OrphanStays ==
    /\ [](Answered("post") /\ response.stored /\ response.fault = "db"
            => /\ response.status >= 500 /\ response.status <= 599
               /\ ~response.wrote /\ response.pid \notin PaperIds
               /\ Orphan(response.handle) /\ response.handle \notin destroyed)
    /\ [][\A h \in 1..MaxUploads : Orphan(h) => Orphan(h)']_vars

C16_Witness ==
    /\ Answered("post") /\ response.stored /\ response.fault = "db"
    /\ response.status = 500 /\ Orphan(response.handle)
    /\ destroyed # {} /\ papers = <<>>

\* C17: in DELETE /api/papers/:id the gateway remove call comes after the
\* author-or-admin check and before the record removal; it is made only for a
\* non-empty storage handle; when it fails the record is still removed and the
\* answer is {ok:true} (unless the record removal itself fails).
C17_DeleteOrder ==
    \A q \in Requests :
        q.kind = "delete"
            => /\ q.destroyCalled \/ q.wrote \/ q.pc = "del_remove"
                    => q.found /\ (q.user.name = q.author \/ q.user.isAdmin)
               /\ q.destroyCalled => q.handle # NoHandle
               /\ q.wrote \/ q.pc = "del_remove"
                    => (q.handle # NoHandle <=> q.destroyCalled)
               /\ q.pc = "done" /\ q.destroyCalled /\ ~q.destroyOk /\ q.fault # "db"
                    => q.status = 200 /\ q.wrote /\ q.pid \notin PaperIds

C17_Witness ==
    /\ Answered("delete") /\ response.status = 200 /\ response.wrote
    /\ response.handle = NoHandle /\ ~response.destroyCalled
    /\ \E h \in objects : h \in removed /\ h \notin destroyed

\* C18: a Paper record is removed only by a request whose verified identity is an
\* admin or is the user (by id) whose authenticated request created the paper.
C18_OnlyCreatorOrAdmin ==
    \A q \in Requests :
        q.kind = "delete" /\ q.wrote => q.user.isAdmin \/ q.user.id = q.creator
====
